---- MODULE Spec2Model ----
(***************************************************************************)
(* geoPulse: geofence evaluation and transition tracking.                  *)
(*                                                                         *)
(* The model follows app/internal/services/geolocation_service.py and the  *)
(* repositories it calls.  Every POST /locations request is one coroutine  *)
(* (a "task"); coroutines of different requests interleave at the await    *)
(* points of check_geofences: after the snapshot of the device's           *)
(* device_geofences rows has been read, and between two iterations of the  *)
(* loop over that snapshot.                                                *)
(*                                                                         *)
(* Python None / SQL NULL is the empty sequence, a present value v is <<v>>.*)
(* Latitudes and longitudes are whole degrees on a small grid.             *)
(***************************************************************************)
EXTENDS Integers, Sequences, FiniteSets, Bags, TLC

VARIABLES
    devices,           \* devices table: device id -> optional Device
    geofences,         \* geofences table: geofence id -> optional Geofence
    device_geofences,  \* device_geofences table: <<device, geofence>> -> optional row
    locations,         \* locations table, in insertion order
    notifications,     \* notifications table, in insertion order (id = position)
    task_queue,        \* send_notification_task messages handed to Celery (bag)
    events,            \* events handed to a started Kafka producer (bag)
    producer,          \* state of the injected Kafka producer
    db,                \* writes the database still accepts before it fails (None: healthy)
    now,               \* wall clock read by datetime.now()
    requests,          \* number of POST /locations requests accepted so far
    tasks,             \* request coroutines: position and locals
    last,              \* history: what the latest loop iteration of check_geofences did
    lastCompleted,     \* history: per device, the sample of the latest evaluation that ran to completion
    lastProcessed,     \* history: per pair, the coordinate of the latest sample evaluated for the pair
    lastFailed,        \* history: per device, the sample of the latest evaluation that was aborted
                       \* and the geofences for which it had committed a write
    delivered,         \* notification ids handed to a delivery provider (bag)
    rt,                \* one call of a function wrapped by retry_async / retry_sync
    cb,                \* the fields of one AsyncCircuitBreaker
    calls,             \* the coroutines inside AsyncCircuitBreaker.call
    cbLast             \* history: what the latest step of a breaker call did

vars == <<devices, geofences, device_geofences, locations, notifications,
          task_queue, events, producer, db, now, requests, tasks, last,
          lastCompleted, lastProcessed, lastFailed, delivered, rt, cb, calls,
          cbLast>>

\* The variables of the retry wrapper and of the circuit breaker.
utilVars == <<rt, cb, calls, cbLast>>

\* The variables of the location flow other than the clock and the tables
\* the notification workers write.
flowVars == <<devices, geofences, device_geofences, locations, events,
              producer, db, requests, tasks, last, lastCompleted,
              lastProcessed, lastFailed>>

----------------------------------------------------------------------------
(* Bounds *)

MaxSamples == 3
MaxTime == 1
MaxAttempts == 3
MaxQueue == 3

DeviceIds == {1, 2}
GeofenceIds == {1, 2}
TaskIds == {1, 2}

\* Sample coordinates <<latitude, longitude>> sent by devices.
SampleCoords == {<<1, 1>>, <<0, 0>>, <<2, 2>>}

----------------------------------------------------------------------------
(* Optional values *)

None == <<>>
Some(v) == <<v>>
IsNone(o) == o = <<>>
Val(o) == o[1]

----------------------------------------------------------------------------
(* Geometry: geolocation_service.py, module level functions *)

\* haversine_distance on the whole-degree grid 0..2, rounded up to the next
\* metre; R = 6371000.  The distance depends on the two latitudes and on the
\* absolute difference of the longitudes only.
HaversineTable ==
    [k \in (0..2) \X (0..2) \X (0..2) |->
        CASE k = <<0, 0, 0>> -> 0
          [] k = <<0, 0, 1>> -> 111195
          [] k = <<0, 0, 2>> -> 222390
          [] k = <<0, 1, 0>> -> 111195
          [] k = <<0, 1, 1>> -> 157250
          [] k = <<0, 1, 2>> -> 248630
          [] k = <<0, 2, 0>> -> 222390
          [] k = <<0, 2, 1>> -> 248630
          [] k = <<0, 2, 2>> -> 314475
          [] k = <<1, 0, 0>> -> 111195
          [] k = <<1, 0, 1>> -> 157250
          [] k = <<1, 0, 2>> -> 248630
          [] k = <<1, 1, 0>> -> 0
          [] k = <<1, 1, 1>> -> 111178
          [] k = <<1, 1, 2>> -> 222356
          [] k = <<1, 2, 0>> -> 111195
          [] k = <<1, 2, 1>> -> 157226
          [] k = <<1, 2, 2>> -> 248569
          [] k = <<2, 0, 0>> -> 222390
          [] k = <<2, 0, 1>> -> 248630
          [] k = <<2, 0, 2>> -> 314475
          [] k = <<2, 1, 0>> -> 111195
          [] k = <<2, 1, 1>> -> 157226
          [] k = <<2, 1, 2>> -> 248569
          [] k = <<2, 2, 0>> -> 0
          [] k = <<2, 2, 1>> -> 111128
          [] k = <<2, 2, 2>> -> 222255]

Abs(x) == IF x < 0 THEN -x ELSE x

haversine_distance(lat1, lon1, lat2, lon2) ==
    HaversineTable[<<lat1, lat2, Abs(lon2 - lon1)>>]

\* Results of a containment computation: a boolean, or the exception raised.
Ok(b) == [err |-> "", inside |-> b]
Raise(e) == [err |-> e, inside |-> FALSE]

\* point_in_circle; float(None) and None - Decimal raise TypeError.
point_in_circle(lat, lon, center_lat, center_lon, radius_meters) ==
    IF IsNone(center_lat) \/ IsNone(center_lon) \/ IsNone(radius_meters)
    THEN Raise("TypeError")
    ELSE Ok(haversine_distance(lat, lon, Val(center_lat), Val(center_lon))
              <= Val(radius_meters))

\* Twice the signed area of the triangle a, b, p in the (lon, lat) plane.
Cross(a, b, p) ==
    (b[2] - a[2]) * (p[1] - a[1]) - (b[1] - a[1]) * (p[2] - a[2])

Min(x, y) == IF x <= y THEN x ELSE y
Max(x, y) == IF x >= y THEN x ELSE y

\* p lies on the closed segment a-b.
OnSegment(a, b, p) ==
    /\ Cross(a, b, p) = 0
    /\ Min(a[1], b[1]) <= p[1] /\ p[1] <= Max(a[1], b[1])
    /\ Min(a[2], b[2]) <= p[2] /\ p[2] <= Max(a[2], b[2])

\* The edge a-b crosses the ray that leaves p towards larger longitudes.
CrossesRay(a, b, p) ==
    /\ (a[1] > p[1]) # (b[1] > p[1])
    /\ IF b[1] > a[1] THEN Cross(a, b, p) > 0 ELSE Cross(a, b, p) < 0

Edges(coords) ==
    {<<coords[i], coords[(i % Len(coords)) + 1]>> : i \in 1..Len(coords)}

\* point_in_polygon: shapely's Polygon(...) raises ValueError for a ring of
\* fewer than three vertices; contains() is true for interior points only.
point_in_polygon(lat, lon, polygon_coords) ==
    IF Len(polygon_coords) < 3
    THEN Raise("ValueError")
    ELSE LET p == <<lat, lon>>
             E == Edges(polygon_coords)
         IN  Ok(/\ \A e \in E : ~OnSegment(e[1], e[2], p)
                /\ Cardinality({e \in E : CrossesRay(e[1], e[2], p)}) % 2 = 1)

\* Variant of point_in_rectangle: the bounds are exclusive.
point_in_rectangle_exclusive(lat, lon, min_lat, max_lat, min_lon, max_lon) ==
    IF IsNone(min_lat) \/ IsNone(max_lat) \/ IsNone(min_lon) \/ IsNone(max_lon)
    THEN Raise("TypeError")
    ELSE Ok(/\ Val(min_lat) < lat /\ lat < Val(max_lat)
            /\ Val(min_lon) < lon /\ lon < Val(max_lon))

\* point_in_rectangle: chained comparisons evaluated left to right with
\* short circuit; comparing a Decimal with None raises TypeError.
point_in_rectangle(lat, lon, min_lat, max_lat, min_lon, max_lon) ==
    IF IsNone(min_lat) THEN Raise("TypeError")
    ELSE IF ~(Val(min_lat) <= lat) THEN Ok(FALSE)
    ELSE IF IsNone(max_lat) THEN Raise("TypeError")
    ELSE IF ~(lat <= Val(max_lat)) THEN Ok(FALSE)
    ELSE IF IsNone(min_lon) THEN Raise("TypeError")
    ELSE IF ~(Val(min_lon) <= lon) THEN Ok(FALSE)
    ELSE IF IsNone(max_lon) THEN Raise("TypeError")
    ELSE Ok(lon <= Val(max_lon))

----------------------------------------------------------------------------
(* Tables: app/pkg/db/models *)

\* Shape columns of a Geofence row.  polygon_coordinates is a list of
\* <<lat, lon>> pairs; NULL and the empty list are both the empty sequence
\* (the code only tests the column for truthiness).
Shape(type, clat, clon, radius, polygon, minlat, maxlat, minlon, maxlon) ==
    [geofence_type |-> type,
     center_latitude |-> clat, center_longitude |-> clon, radius_meters |-> radius,
     polygon_coordinates |-> polygon,
     min_latitude |-> minlat, max_latitude |-> maxlat,
     min_longitude |-> minlon, max_longitude |-> maxlon]

CircleOk == Shape("circle", Some(1), Some(1), Some(120000), None, None, None, None, None)
CircleNoCenter == Shape("circle", None, None, Some(120000), None, None, None, None, None)
PolygonOk ==
    Shape("polygon", None, None, None, <<<<0, 0>>, <<0, 2>>, <<2, 2>>, <<2, 0>>>>,
          None, None, None, None)
PolygonNone == Shape("polygon", None, None, None, None, None, None, None, None)
PolygonTwo ==
    Shape("polygon", None, None, None, <<<<0, 0>>, <<2, 2>>>>, None, None, None, None)
RectOk == Shape("rectangle", None, None, None, None, Some(0), Some(1), Some(0), Some(1))
RectNoMax == Shape("rectangle", None, None, None, None, Some(1), None, Some(0), Some(2))

ValidShapes == {CircleOk, PolygonOk, RectOk}
MissingShapes == {CircleNoCenter, PolygonNone, RectNoMax}
AllShapes == ValidShapes \cup MissingShapes \cup {PolygonTwo}

Statuses == {"active", "inactive", "archived"}

Flags(ne, nx, push, tg) ==
    [notify_on_enter |-> ne, notify_on_exit |-> nx,
     enable_push |-> push, enable_telegram |-> tg]

AllFlags == {Flags(ne, nx, push, tg) : ne \in BOOLEAN, nx \in BOOLEAN,
                                       push \in BOOLEAN, tg \in BOOLEAN}

\* A Geofence row: the shape columns, the status and the notification settings.
Geofence(shape, status, flags) ==
    [geofence_type |-> shape.geofence_type,
     center_latitude |-> shape.center_latitude,
     center_longitude |-> shape.center_longitude,
     radius_meters |-> shape.radius_meters,
     polygon_coordinates |-> shape.polygon_coordinates,
     min_latitude |-> shape.min_latitude, max_latitude |-> shape.max_latitude,
     min_longitude |-> shape.min_longitude, max_longitude |-> shape.max_longitude,
     status |-> status,
     notify_on_enter |-> flags.notify_on_enter,
     notify_on_exit |-> flags.notify_on_exit,
     enable_push |-> flags.enable_push,
     enable_telegram |-> flags.enable_telegram]

\* A Device row: whether fcm_token / telegram_chat_id hold a non-empty value.
Device(fcm, chat) == [fcm_token |-> fcm, telegram_chat_id |-> chat]

AllDevices == {Device(f, c) : f \in BOOLEAN, c \in BOOLEAN}

\* A DeviceGeofence row.
DeviceGeofence(inside, entered, exited) ==
    [is_inside |-> inside, last_entered_at |-> entered, last_exited_at |-> exited]

\* DeviceGeofenceRepository.get_or_create: the row it adds when none exists.
NewDeviceGeofence == DeviceGeofence(FALSE, None, None)

----------------------------------------------------------------------------
(* check_geofences, one iteration of the loop *)

\* Variant of Participates: the status is not looked at.
Participates_any_status(geofence) ==
    ~IsNone(geofence)

\* Lines 156-157: a geofence takes part only if it exists and is active.
Participates(geofence) ==
    /\ ~IsNone(geofence)
    /\ Val(geofence).status = "active"

\* Lines 159-180: the containment computation, by geofence type.
ComputeIsInside(g, lat, lon) ==
    CASE g.geofence_type = "circle" ->
            point_in_circle(lat, lon, g.center_latitude, g.center_longitude,
                            g.radius_meters)
      [] g.geofence_type = "polygon" ->
            IF g.polygon_coordinates # <<>>
            THEN point_in_polygon(lat, lon, g.polygon_coordinates)
            ELSE Ok(FALSE)
      [] g.geofence_type = "rectangle" ->
            point_in_rectangle(lat, lon, g.min_latitude, g.max_latitude,
                               g.min_longitude, g.max_longitude)

\* Variant of Detect: a sample outside is never an exit.
Detect_never_exits(previous_state, is_inside) ==
    IF is_inside /\ ~previous_state THEN "Entered" ELSE "Unchanged"

\* Variant of Detect: a sample inside is always an entry.
Detect_on_inside(previous_state, is_inside) ==
    IF is_inside THEN "Entered"
    ELSE IF previous_state THEN "Exited" ELSE "Unchanged"

\* Variant of Detect: the stored state is not compared.
Detect_always(previous_state, is_inside) ==
    IF is_inside THEN "Entered" ELSE "Exited"

\* Lines 183-185 and 218: the transition, from the is_inside of the snapshot
\* row and the computed containment.
Detect(previous_state, is_inside) ==
    IF is_inside # previous_state
    THEN IF is_inside THEN "Entered" ELSE "Exited"
    ELSE "Unchanged"

\* Variant of update_state: both timestamp columns are always in the UPDATE.
update_state_overwrites(row, is_inside, entered_at, exited_at) ==
    Some(DeviceGeofence(is_inside, entered_at, exited_at))

\* Variant of update_state: is_inside is left out of the UPDATE.
update_state_keeps_inside(row, is_inside, entered_at, exited_at) ==
    LET r == IF IsNone(row) THEN NewDeviceGeofence ELSE Val(row)
    IN  Some(DeviceGeofence(
            r.is_inside,
            IF IsNone(entered_at) THEN r.last_entered_at ELSE entered_at,
            IF IsNone(exited_at) THEN r.last_exited_at ELSE exited_at))

\* DeviceGeofenceRepository.update_state: get_or_create, then UPDATE with
\* is_inside and with the timestamps that were passed.
update_state(row, is_inside, entered_at, exited_at) ==
    LET r == IF IsNone(row) THEN NewDeviceGeofence ELSE Val(row)
    IN  Some(DeviceGeofence(
            is_inside,
            IF IsNone(entered_at) THEN r.last_entered_at ELSE entered_at,
            IF IsNone(exited_at) THEN r.last_exited_at ELSE exited_at))

\* Variant of ShouldNotify: notify_on_exit decides for both kinds.
ShouldNotify_exit_flag_only(g, kind) ==
    g.notify_on_exit

\* Lines 195 and 228: the notify flag of the transition kind.
ShouldNotify(g, kind) ==
    IF kind = "Entered" THEN g.notify_on_enter ELSE g.notify_on_exit

\* Variant of Channels: the device's push token is not looked at.
Channels_ignore_token(g, device) ==
    (IF g.enable_push THEN <<"push">> ELSE <<>>)
    \o (IF g.enable_telegram /\ device.telegram_chat_id THEN <<"telegram">> ELSE <<>>)

\* send_geofence_notification, lines 270 and 304: the channels, in the order
\* in which their notifications are created.
Channels(g, device) ==
    (IF g.enable_push /\ device.fcm_token THEN <<"push">> ELSE <<>>)
    \o (IF g.enable_telegram /\ device.telegram_chat_id THEN <<"telegram">> ELSE <<>>)

\* send_geofence_notification: the Notification rows it creates, given the
\* number of rows already in the table (ids are assigned in sequence).
send_geofence_notification(count, device_db_id, device, g, geofence_id, event_type, coord) ==
    IF IsNone(device) THEN <<>>
    ELSE LET ch == Channels(g, Val(device))
         IN  [i \in 1..Len(ch) |->
                [id |-> count + i, device_id |-> device_db_id,
                 geofence_id |-> geofence_id, notification_type |-> ch[i],
                 event_type |-> event_type, latitude |-> coord[1],
                 longitude |-> coord[2], status |-> "pending"]]

\* send_notification_task.delay(...): the message for one Notification row.
TaskMessage(n) ==
    [notification_id |-> n.id, notification_type |-> n.notification_type]

\* KafkaProducer.send_location_event / send_geofence_event: the event.
LocationEvent(device_id, coord, ts) ==
    [event_type |-> "location.update", device_id |-> device_id,
     geofence_id |-> None, latitude |-> coord[1], longitude |-> coord[2],
     timestamp |-> Some(ts)]

GeofenceEvent(device_id, geofence_id, event_type, coord) ==
    [event_type |-> event_type, device_id |-> device_id,
     geofence_id |-> Some(geofence_id), latitude |-> coord[1],
     longitude |-> coord[2], timestamp |-> None]

\* Variant of EventTypeOf: the two event types are swapped.
EventTypeOf_swapped(kind) ==
    IF kind = "Entered" THEN "geofence.exit" ELSE "geofence.enter"

\* Lines 209 and 242: the event type of a transition.
EventTypeOf(kind) ==
    IF kind = "Entered" THEN "geofence.enter" ELSE "geofence.exit"

\* Lines 199 and 232: the notification event_type of a transition.
NotificationEventOf(kind) ==
    IF kind = "Entered" THEN "geofence_enter" ELSE "geofence_exit"

\* KafkaProducer.send_event: an event reaches Kafka only through a started
\* producer.  A producer that was never started returns at line 53-55; the
\* service container injects None, and the AttributeError is caught at
\* lines 142, 215 and 248 of the service.
Publish(bag, prod, event) ==
    IF prod = "started" THEN bag (+) SetToBag({event}) ELSE bag

RECURSIVE SeqToBag(_)
SeqToBag(s) ==
    IF s = <<>> THEN EmptyBag ELSE SetToBag({Head(s)}) (+) SeqToBag(Tail(s))

\* What a call of send_location_event / send_geofence_event raises: nothing
\* through a started producer, nothing when the producer was never started
\* (send_event returns at line 55), the error of AIOKafkaProducer.send when
\* the broker cannot be reached, AttributeError when the container injected
\* None for the producer.
send_event_error(prod) ==
    CASE prod = "started" -> ""
      [] prod = "unstarted" -> ""
      [] prod = "failing" -> "KafkaError"
      [] prod = "absent" -> "AttributeError"

ProducerStates == {"started", "unstarted", "failing", "absent"}

\* Variant of Caught: the exception is raised again.
Caught_reraise(e) == e

\* try / except Exception around the publication (lines 132-143, 204-216 and
\* 237-249): the error is logged and nothing leaves the block.
Caught(e) == ""

\* The database accepts a number of further writes and then raises on every
\* write; None is a healthy database.  No handler writes more than AllWrites
\* rows.
AllWrites == 3

WritesLeft(d) == IF IsNone(d) THEN AllWrites ELSE Val(d)

Spend(d, n) == IF IsNone(d) THEN None ELSE Some(Val(d) - n)

\* Variant of transition_writes: the notifications are created before the
\* state is written.
transition_writes_notify_first(w, n) ==
    [state |-> w >= n + 1, created |-> Min(n, w), failed |-> w < n + 1]

\* The writes of one transition branch (lines 187-203 and 220-236) when the
\* database accepts w more writes and n notifications are due: update_state
\* comes first, then the notifications one by one; the first write that
\* fails raises and ends the branch.
transition_writes(w, n) ==
    [state |-> w >= 1, created |-> Min(n, Max(w - 1, 0)), failed |-> w < n + 1]

----------------------------------------------------------------------------
(* Request coroutines *)

IdleTask ==
    [pc |-> "idle", device_id |-> 0, coord |-> <<0, 0>>, ts |-> 0,
     snapshot |-> <<>>, idx |-> 0, response |-> 0, error |-> "",
     repeat |-> FALSE, retry |-> FALSE, already |-> {}, written |-> {}]

\* A finished request: the HTTP status of create_location and the exception
\* that ended it, if any.
DoneTask(device_id, response, error) ==
    [IdleTask EXCEPT !.pc = "done", !.device_id = device_id,
                     !.response = response, !.error = error]

NoStep ==
    [task |-> 0, device_id |-> 0, geofence_id |-> 0, geofence |-> None,
     device |-> None, coord |-> <<0, 0>>, ts |-> 0, prev |-> FALSE,
     stored |-> None, after |-> None, err |-> "", computed |-> FALSE,
     kind |-> "None", created |-> <<>>, enqueued |-> <<>>, published |-> <<>>,
     aborted |-> FALSE, repeat |-> FALSE, retry |-> FALSE, already |-> {},
     newest |-> None]

\* DeviceGeofenceRepository.get_by_device_id: the rows of the device, in
\* the order of their geofence ids (the query has no ORDER BY; the rows of a
\* device are inserted and scanned in this order).
RECURSIVE RowsFrom(_, _, _)
RowsFrom(table, d, g) ==
    IF g \notin GeofenceIds THEN <<>>
    ELSE (IF IsNone(table[<<d, g>>]) THEN <<>>
          ELSE <<[geofence_id |-> g, is_inside |-> Val(table[<<d, g>>]).is_inside]>>)
         \o RowsFrom(table, d, g + 1)

\* Variant of get_by_device_id: the WHERE clause is missing, the rows of the
\* lowest device id are returned for every device.
get_by_device_id_unfiltered(table, d) == RowsFrom(table, 1, 1)

get_by_device_id(table, d) == RowsFrom(table, d, 1)

\* No other request of the same device is between its snapshot and its end.
DeviceIsQuiet(d) ==
    \A u \in TaskIds : ~(tasks[u].pc = "check" /\ tasks[u].device_id = d)

\* History: the record of an aborted evaluation.
Aborted(sample, written) == Some([sample |-> sample, written |-> written])

\* create_location -> process_location up to the snapshot of check_geofences
\* (lines 105-152): device lookup, location insert, location event, snapshot.
\* For an unknown device process_location returns at line 108 and the route
\* raises HTTP 500 at line 121.  A failing insert raises out of the route.
ProcessLocation(t, d, c, ts) ==
    /\ tasks[t].pc \in {"idle", "done"}
    /\ \A u \in TaskIds : u < t => tasks[u].pc = "check"
    /\ requests < MaxSamples
    /\ requests' = requests + 1
    /\ LET retry == /\ ~IsNone(lastFailed[d])
                    /\ Val(lastFailed[d]).sample = <<c, ts>>
           already == IF retry THEN Val(lastFailed[d]).written ELSE {}
           pubErr == Caught(send_event_error(producer))
       IN
       IF IsNone(devices[d])
       THEN /\ tasks' = [tasks EXCEPT ![t] = DoneTask(d, 500, "")]
            /\ UNCHANGED <<locations, events, db, lastCompleted, lastFailed>>
       ELSE IF WritesLeft(db) = 0
       THEN /\ tasks' = [tasks EXCEPT ![t] = DoneTask(d, 500, "SQLAlchemyError")]
            /\ lastCompleted' = [lastCompleted EXCEPT ![d] = None]
            /\ lastFailed' = [lastFailed EXCEPT ![d] = Aborted(<<c, ts>>, already)]
            /\ UNCHANGED <<locations, events, db>>
       ELSE /\ locations' = Append(locations, [device_id |-> d, coord |-> c, timestamp |-> ts])
            /\ db' = Spend(db, 1)
            /\ events' = Publish(events, producer, LocationEvent(d, c, ts))
            /\ IF pubErr # ""
               THEN /\ tasks' = [tasks EXCEPT ![t] = DoneTask(d, 500, pubErr)]
                    /\ lastCompleted' = [lastCompleted EXCEPT ![d] = None]
                    /\ lastFailed' = [lastFailed EXCEPT ![d] = Aborted(<<c, ts>>, already)]
               ELSE /\ tasks' = [tasks EXCEPT ![t] =
                          [pc |-> "check", device_id |-> d, coord |-> c, ts |-> ts,
                           snapshot |-> get_by_device_id(device_geofences, d),
                           idx |-> 1, response |-> 0, error |-> "",
                           repeat |-> (lastCompleted[d] = Some(<<c, ts>>)),
                           retry |-> retry, already |-> already,
                           written |-> already]]
                    /\ UNCHANGED <<lastCompleted, lastFailed>>
    /\ UNCHANGED <<devices, geofences, device_geofences, notifications,
                   task_queue, producer, now, last, lastProcessed>>
    /\ UNCHANGED <<delivered, utilVars>>

\* One iteration of the loop of check_geofences (lines 154-249).
CheckGeofence(t) ==
    /\ tasks[t].pc = "check"
    /\ tasks[t].idx <= Len(tasks[t].snapshot)
    /\ LET tk == tasks[t]
           d == tk.device_id
           dg == tk.snapshot[tk.idx]
           gid == dg.geofence_id
           geofence == geofences[gid]
           stored == device_geofences[<<d, gid>>]
           step == [NoStep EXCEPT !.task = t, !.device_id = d, !.geofence_id = gid,
                                  !.geofence = geofence, !.device = devices[d],
                                  !.coord = tk.coord, !.ts = tk.ts,
                                  !.prev = dg.is_inside,
                                  !.stored = stored, !.after = stored,
                                  !.repeat = tk.repeat, !.retry = tk.retry,
                                  !.already = tk.already,
                                  !.newest = IF IsNone(lastCompleted[d]) THEN None
                                             ELSE Some(Val(lastCompleted[d])[2])]
       IN
       IF ~Participates(geofence)
       THEN /\ tasks' = [tasks EXCEPT ![t].idx = tk.idx + 1]
            /\ last' = [step EXCEPT !.kind = "Skipped"]
            /\ UNCHANGED <<device_geofences, notifications, task_queue, events,
                           db, lastCompleted, lastProcessed, lastFailed>>
       ELSE
       LET g == Val(geofence)
           res == ComputeIsInside(g, tk.coord[1], tk.coord[2])
           kind == Detect(dg.is_inside, res.inside)
       IN
       IF res.err # ""
       THEN \* the exception leaves check_geofences, process_location and the route
            /\ tasks' = [tasks EXCEPT ![t] = DoneTask(d, 500, res.err)]
            /\ last' = [step EXCEPT !.kind = "Failed", !.err = res.err,
                                    !.aborted = TRUE]
            /\ lastCompleted' = [lastCompleted EXCEPT ![d] = None]
            /\ lastFailed' = [lastFailed EXCEPT ![d] =
                                 Aborted(<<tk.coord, tk.ts>>, tk.written)]
            /\ UNCHANGED <<device_geofences, notifications, task_queue, events,
                           db, lastProcessed>>
       ELSE IF kind = "Unchanged"
       THEN /\ tasks' = [tasks EXCEPT ![t].idx = tk.idx + 1]
            /\ last' = [step EXCEPT !.kind = kind, !.computed = res.inside]
            /\ lastProcessed' = [lastProcessed EXCEPT ![<<d, gid>>] = Some(tk.coord)]
            /\ UNCHANGED <<device_geofences, notifications, task_queue, events,
                           db, lastCompleted, lastFailed>>
       ELSE
       LET due == IF ShouldNotify(g, kind)
                  THEN send_geofence_notification(Len(notifications), d, devices[d],
                           g, gid, NotificationEventOf(kind), tk.coord)
                  ELSE <<>>
           w == transition_writes(WritesLeft(db), Len(due))
           row == IF w.state
                  THEN update_state(stored, res.inside,
                                    IF kind = "Entered" THEN Some(now) ELSE None,
                                    IF kind = "Exited" THEN Some(now) ELSE None)
                  ELSE stored
           created == SubSeq(due, 1, w.created)
           enqueued == [i \in 1..Len(created) |-> TaskMessage(created[i])]
           event == GeofenceEvent(d, gid, EventTypeOf(kind), tk.coord)
           err == IF w.failed THEN "SQLAlchemyError"
                  ELSE Caught(send_event_error(producer))
           written == IF w.state \/ w.created > 0
                      THEN tk.written \cup {gid} ELSE tk.written
       IN   /\ device_geofences' = [device_geofences EXCEPT ![<<d, gid>>] = row]
            /\ notifications' = notifications \o created
            /\ task_queue' = task_queue (+) SeqToBag(enqueued)
            /\ events' = IF w.failed THEN events ELSE Publish(events, producer, event)
            /\ db' = Spend(db, Min(WritesLeft(db), 1 + Len(due)))
            /\ tasks' = [tasks EXCEPT ![t] =
                            IF err # "" THEN DoneTask(d, 500, err)
                            ELSE [tk EXCEPT !.idx = tk.idx + 1, !.written = written]]
            /\ last' = [step EXCEPT !.kind = IF w.state THEN kind ELSE "Failed",
                                    !.computed = res.inside, !.err = err,
                                    !.after = row, !.created = created,
                                    !.enqueued = enqueued,
                                    !.aborted = (err # ""),
                                    !.published = IF ~w.failed /\ producer = "started"
                                                  THEN <<event>> ELSE <<>>]
            /\ lastProcessed' = IF w.state
                                THEN [lastProcessed EXCEPT ![<<d, gid>>] = Some(tk.coord)]
                                ELSE lastProcessed
            /\ lastCompleted' = IF err # "" THEN [lastCompleted EXCEPT ![d] = None]
                                ELSE lastCompleted
            /\ lastFailed' = IF err # ""
                             THEN [lastFailed EXCEPT ![d] =
                                      Aborted(<<tk.coord, tk.ts>>, written)]
                             ELSE lastFailed
    /\ UNCHANGED <<devices, geofences, locations, producer, now, requests>>
    /\ UNCHANGED <<delivered, utilVars>>

\* The loop is over; create_location reads the latest location back and
\* answers 201 (routes/geolocation.py lines 114-119).
RespondLocation(t) ==
    /\ tasks[t].pc = "check"
    /\ tasks[t].idx > Len(tasks[t].snapshot)
    /\ tasks' = [tasks EXCEPT ![t] = DoneTask(tasks[t].device_id, 201, "")]
    /\ lastCompleted' = [lastCompleted EXCEPT ![tasks[t].device_id] =
                            Some(<<tasks[t].coord, tasks[t].ts>>)]
    /\ lastFailed' = [lastFailed EXCEPT ![tasks[t].device_id] = None]
    /\ UNCHANGED <<devices, geofences, device_geofences, locations,
                   notifications, task_queue, events, producer, db, now, requests,
                   last, lastProcessed>>
    /\ UNCHANGED <<delivered, utilVars>>

\* DELETE /geofences/{id}: GeofenceRepository.delete; the device_geofences
\* rows of the geofence go with it (relationship cascade, FK ON DELETE CASCADE).
DeleteGeofence(g) ==
    /\ ~IsNone(geofences[g])
    /\ geofences' = [geofences EXCEPT ![g] = None]
    /\ device_geofences' = [p \in DOMAIN device_geofences |->
                               IF p[2] = g THEN None ELSE device_geofences[p]]
    /\ lastProcessed' = [p \in DOMAIN lastProcessed |->
                               IF p[2] = g THEN None ELSE lastProcessed[p]]
    /\ UNCHANGED <<devices, locations, notifications, task_queue, events,
                   producer, db, now, requests, tasks, last, lastCompleted,
                   lastFailed>>
    /\ UNCHANGED <<delivered, utilVars>>

\* Time passes.
Tick ==
    /\ now < MaxTime
    /\ now' = now + 1
    /\ UNCHANGED <<devices, geofences, device_geofences, locations,
                   notifications, task_queue, events, producer, db, requests,
                   tasks, last, lastCompleted, lastProcessed, lastFailed>>
    /\ UNCHANGED <<delivered, utilVars>>

\* The database starts to fail: it accepts n more writes, and every later
\* write raises (SQLAlchemyConnector.session rolls back and raises again).
DbDegrades(n) ==
    /\ IsNone(db)
    /\ db' = Some(n)
    /\ UNCHANGED <<devices, geofences, device_geofences, locations,
                   notifications, task_queue, events, producer, now, requests,
                   tasks, last, lastCompleted, lastProcessed, lastFailed>>
    /\ UNCHANGED <<delivered, utilVars>>

\* The database is healthy again.
DbRecovers ==
    /\ ~IsNone(db)
    /\ db' = None
    /\ UNCHANGED <<devices, geofences, device_geofences, locations,
                   notifications, task_queue, events, producer, now, requests,
                   tasks, last, lastCompleted, lastProcessed, lastFailed>>
    /\ UNCHANGED <<delivered, utilVars>>

----------------------------------------------------------------------------
(* Retry wrapper: app/pkg/utils/retry.py *)

\* Delays are rationals <<numerator, denominator>> with a positive
\* denominator.
Rat(n) == <<n, 1>>
RatMul(a, b) == <<a[1] * b[1], a[2] * b[2]>>
RatLeq(a, b) == a[1] * b[2] <= b[1] * a[2]
RatMin(a, b) == IF RatLeq(a, b) THEN a ELSE b

\* random.random() returns k / RandomSteps for a k in Draws (a value in
\* [0, 1)).
RandomSteps == 4
Draws == 0..(RandomSteps - 1)

\* 0.5 + random.random() * 0.5
HalfToOne(k) == <<RandomSteps + k, 2 * RandomSteps>>

\* 0.8 + random.random() * 0.4
AroundOne(k) == <<4 * RandomSteps + 2 * k, 5 * RandomSteps>>

exponential_backoff(attempt, base_delay, max_delay, jitter, k) ==
    LET delay == RatMin(Rat(base_delay * (2 ^ (attempt - 1))), Rat(max_delay))
    IN  IF jitter THEN RatMul(delay, HalfToOne(k)) ELSE delay

linear_backoff(attempt, base_delay, max_delay, jitter, k) ==
    LET delay == RatMin(Rat(base_delay * attempt), Rat(max_delay))
    IN  IF jitter THEN RatMul(delay, AroundOne(k)) ELSE delay

constant_backoff(attempt, base_delay, max_delay, jitter, k) ==
    LET delay == Rat(base_delay)
    IN  RatMin(IF jitter THEN RatMul(delay, AroundOne(k)) ELSE delay, Rat(max_delay))

\* random.uniform(0, max_backoff) is max_backoff * random.random().
jitter_backoff(attempt, base_delay, max_delay, jitter, k) ==
    LET max_backoff == RatMin(Rat(base_delay * (2 ^ (attempt - 1))), Rat(max_delay))
    IN  RatMul(max_backoff, <<k, RandomSteps>>)

BackoffStrategy == {"constant", "linear", "exponential", "exponential_jitter"}

_calculate_delay(config, attempt, k) ==
    CASE config.backoff_strategy = "constant" ->
            constant_backoff(attempt, config.base_delay, config.max_delay, config.jitter, k)
      [] config.backoff_strategy = "linear" ->
            linear_backoff(attempt, config.base_delay, config.max_delay, config.jitter, k)
      [] config.backoff_strategy = "exponential" ->
            exponential_backoff(attempt, config.base_delay, config.max_delay, config.jitter, k)
      [] config.backoff_strategy = "exponential_jitter" ->
            jitter_backoff(attempt, config.base_delay, config.max_delay, config.jitter, k)

\* An exception raised by the wrapped function: whether it is an instance of
\* config.retriable_exceptions and of config.non_retriable_exceptions.
ExceptionClasses == [retriable : BOOLEAN, non_retriable : BOOLEAN]

\* Variant of _should_retry: non_retriable_exceptions is not looked at.
_should_retry_retriable_only(exception, config) ==
    exception.retriable

_should_retry(exception, config) ==
    IF exception.non_retriable THEN FALSE ELSE exception.retriable

\* Variant of LoopEnds: the loop never ends by itself.
LoopEnds_never(config, attempt) == FALSE

\* After a failed attempt the loop is over: the break of the last attempt
\* (line 180), or the end of range(1, max_attempts + 1) (line 155).
LoopEnds(config, attempt) ==
    \/ attempt = config.max_attempts
    \/ attempt + 1 \notin 1..config.max_attempts

RetryConfigs ==
    [wrapper : {"retry_async", "retry_sync"},
     max_attempts : 1..MaxAttempts,
     base_delay : {0, 1, 2},
     max_delay : {1, 3},
     backoff_strategy : BackoffStrategy,
     jitter : BOOLEAN,
     on_retry : BOOLEAN]

DefaultRetryConfig ==
    [wrapper |-> "retry_async", max_attempts |-> 3, base_delay |-> 1,
     max_delay |-> 60, backoff_strategy |-> "exponential", jitter |-> TRUE,
     on_retry |-> FALSE]

\* A wrapper that has been called and is about to make its first attempt.
\* raised is the exception that left the wrapper, retry_error the fields of
\* a RetryError; exceptions carry the number of the attempt that raised them.
RetryCall(config) ==
    [config |-> config, pc |-> "call", attempt |-> 1, invoked |-> 0,
     result |-> None, last_exception |-> None, raised |-> None,
     retry_error |-> None, delay |-> None, slept |-> 0, on_retry_calls |-> 0]

\* No wrapper is running.
RetryIdle == [RetryCall(DefaultRetryConfig) EXCEPT !.pc = "idle"]

\* One iteration of the loop of wrapper (lines 155-199 and 252-296) and, when
\* the loop is over, the raise of RetryError (lines 201-208): the function is
\* invoked and returns (ok) or raises an exception of class e; k is the
\* random draw of the delay.
RetryAttempt(ok, e, k) ==
    /\ rt.pc = "call"
    /\ rt.attempt \in 1..rt.config.max_attempts
    /\ LET exc == [retriable |-> e.retriable, non_retriable |-> e.non_retriable,
                   attempt |-> rt.attempt]
           called == [rt EXCEPT !.invoked = rt.invoked + 1]
       IN
       IF ok
       THEN rt' = [called EXCEPT !.pc = "returned", !.result = Some(rt.attempt)]
       ELSE IF ~_should_retry(exc, rt.config)
       THEN rt' = [called EXCEPT !.pc = "raised", !.last_exception = Some(exc),
                                 !.raised = Some(exc)]
       ELSE IF LoopEnds(rt.config, rt.attempt)
       THEN rt' = [called EXCEPT !.pc = "raised", !.last_exception = Some(exc),
                                 !.retry_error =
                                     Some([last_exception |-> exc,
                                           attempt_count |-> rt.config.max_attempts])]
       ELSE rt' = [called EXCEPT !.last_exception = Some(exc),
                                 !.delay = Some(_calculate_delay(rt.config, rt.attempt, k)),
                                 !.on_retry_calls =
                                     IF rt.config.on_retry THEN @ + 1 ELSE @,
                                 !.slept = @ + 1,
                                 !.attempt = @ + 1]
    /\ UNCHANGED <<flowVars, now, notifications, task_queue, delivered, cb,
                   calls, cbLast>>

----------------------------------------------------------------------------
(* Circuit breaker: app/pkg/utils/circuit_breaker.py *)

Callers == {1, 2, 3}

\* AsyncCircuitBreaker.__init__
NewBreaker(max_failures, reset_timeout_seconds) ==
    [max_failures |-> max_failures,
     reset_timeout_seconds |-> reset_timeout_seconds,
     _failure_count |-> 0, _state |-> "CLOSED", _opened_at |-> None]

\* The reset timeout has elapsed at time t.
Elapsed(b, t) ==
    ~IsNone(b._opened_at) /\ t - Val(b._opened_at) >= b.reset_timeout_seconds

\* _can_pass at time t: whether the call may go on, and the breaker after it.
_can_pass(b, t) ==
    IF b._state = "CLOSED" THEN [pass |-> TRUE, breaker |-> b]
    ELSE IF b._state = "OPEN"
    THEN IF IsNone(b._opened_at) THEN [pass |-> FALSE, breaker |-> b]
         ELSE IF t - Val(b._opened_at) >= b.reset_timeout_seconds
         THEN [pass |-> TRUE, breaker |-> [b EXCEPT !._state = "HALF_OPEN"]]
         ELSE [pass |-> FALSE, breaker |-> b]
    ELSE [pass |-> TRUE, breaker |-> b]

\* Variant of on_failure: the failure count is not capped.
on_failure_uncapped(b, probing, t) ==
    IF b._failure_count + 1 >= b.max_failures \/ probing
    THEN [b EXCEPT !._failure_count = b._failure_count + 1,
                   !._state = "OPEN", !._opened_at = Some(t)]
    ELSE [b EXCEPT !._failure_count = b._failure_count + 1, !._state = "CLOSED"]

\* Variant of on_failure: the breaker opens one failure late.
on_failure_late(b, probing, t) ==
    LET count == Min(b._failure_count + 1, b.max_failures)
    IN  IF b._failure_count >= b.max_failures \/ probing
        THEN [b EXCEPT !._failure_count = count, !._state = "OPEN",
                       !._opened_at = Some(t)]
        ELSE [b EXCEPT !._failure_count = count, !._state = "CLOSED"]

\* The except branch of call (lines 44-53) at time t.
on_failure(b, probing, t) ==
    LET count == b._failure_count + 1
    IN  IF count >= b.max_failures \/ probing
        THEN [b EXCEPT !._failure_count = Min(count, b.max_failures),
                       !._state = "OPEN", !._opened_at = Some(t)]
        ELSE [b EXCEPT !._failure_count = Min(count, b.max_failures),
                       !._state = "CLOSED"]

\* The else branch of call (lines 54-58).
on_success(b) ==
    [b EXCEPT !._failure_count = 0, !._state = "CLOSED", !._opened_at = None]

IdleCall == [pc |-> "idle", probing |-> FALSE]

\* History of the breaker: the latest step, the breaker before and after it,
\* the number of calls that failed since the latest success, and whether
\* and when a probe failed since the latest success.
NoCall ==
    [op |-> "none", caller |-> 0, at |-> 0, probing |-> FALSE,
     before |-> NewBreaker(1, 1), after |-> NewBreaker(1, 1),
     failed_in_a_row |-> 0, probe_failed |-> FALSE, probe_failed_at |-> 0]

\* call, lines 37-41: under the lock, _can_pass decides; a rejected call
\* raises CircuitOpenError, a passed one goes on to await func().
CallEnter(c) ==
    /\ calls[c].pc = "idle"
    /\ LET r == _can_pass(cb, now)
       IN  /\ cb' = r.breaker
           /\ calls' = IF r.pass
                       THEN [calls EXCEPT ![c] =
                               [pc |-> "running",
                                probing |-> (r.breaker._state = "HALF_OPEN")]]
                       ELSE calls
           /\ cbLast' = [cbLast EXCEPT !.op = IF r.pass THEN "passed" ELSE "rejected",
                                       !.caller = c, !.at = now,
                                       !.probing = r.pass /\ r.breaker._state = "HALF_OPEN",
                                       !.before = cb, !.after = r.breaker]
    /\ UNCHANGED <<flowVars, now, notifications, task_queue, delivered, rt>>

\* call, lines 44-53: func() raised.
CallFails(c) ==
    /\ calls[c].pc = "running"
    /\ cb' = on_failure(cb, calls[c].probing, now)
    /\ calls' = [calls EXCEPT ![c] = IdleCall]
    /\ cbLast' = [cbLast EXCEPT !.op = "failed", !.caller = c, !.at = now,
                                !.probing = calls[c].probing,
                                !.before = cb, !.after = cb',
                                !.failed_in_a_row = Min(@ + 1, cb.max_failures),
                                !.probe_failed = @ \/ calls[c].probing,
                                !.probe_failed_at =
                                    IF calls[c].probing THEN now ELSE @]
    /\ UNCHANGED <<flowVars, now, notifications, task_queue, delivered, rt>>

\* call, lines 54-59: func() returned.
CallSucceeds(c) ==
    /\ calls[c].pc = "running"
    /\ cb' = on_success(cb)
    /\ calls' = [calls EXCEPT ![c] = IdleCall]
    /\ cbLast' = [cbLast EXCEPT !.op = "succeeded", !.caller = c, !.at = now,
                                !.probing = calls[c].probing,
                                !.before = cb, !.after = cb',
                                !.failed_in_a_row = 0,
                                !.probe_failed = FALSE,
                                !.probe_failed_at = 0]
    /\ UNCHANGED <<flowVars, now, notifications, task_queue, delivered, rt>>

----------------------------------------------------------------------------
(* Notification tasks: tasks/notification_tasks.py *)

\* What the delivery provider (FirebaseClient.send_push_notification or
\* TelegramClient.send_message) does with one request: it returns a message
\* id, returns None, or raises.
ProviderOutcomes == {"message_id", "none", "error"}

\* send_notification_task, lines 57 and 77: the provider is invoked when the
\* message carries the token of its channel.  The token of a message is the
\* one of the device of the notification (lines 142-143 and
\* geolocation_service.py lines 293 and 329).
ProviderInvoked(n) ==
    /\ ~IsNone(devices[n.device_id])
    /\ \/ n.notification_type = "push" /\ Val(devices[n.device_id]).fcm_token
       \/ n.notification_type = "telegram"
             /\ Val(devices[n.device_id]).telegram_chat_id

\* NotificationRepository.get_pending_notifications: the rows whose status
\* is PENDING (no row of the flow has a scheduled_at), in creation order.
get_pending_notifications ==
    SelectSeq(notifications, LAMBDA n : n.status = "pending")

\* send_notification_task: a worker takes message m from the queue, invokes
\* the provider and records SENT or FAILED in the notification row.
SendNotificationTask(m, outcome) ==
    /\ BagIn(m, task_queue)
    /\ m.notification_id \in 1..Len(notifications)
    /\ LET n == notifications[m.notification_id]
       IN  /\ task_queue' = task_queue (-) SetToBag({m})
           /\ IF ProviderInvoked(n)
              THEN /\ delivered' = delivered (+) SetToBag({n.id})
                   /\ notifications' =
                        [notifications EXCEPT ![n.id].status =
                            IF outcome = "message_id" THEN "sent" ELSE "failed"]
              ELSE UNCHANGED <<delivered, notifications>>
    /\ UNCHANGED <<flowVars, now, utilVars>>

\* process_pending_notifications_task: a task is enqueued for every pending
\* notification whose device exists.
ProcessPendingNotifications ==
    LET pending == get_pending_notifications
        found == SelectSeq(pending, LAMBDA n : ~IsNone(devices[n.device_id]))
    IN  /\ Len(pending) > 0
        /\ BagCardinality(task_queue) + Len(found) <= MaxQueue
        /\ task_queue' = task_queue
                            (+) SeqToBag([i \in 1..Len(found) |-> TaskMessage(found[i])])
        /\ UNCHANGED <<flowVars, now, notifications, delivered, utilVars>>

----------------------------------------------------------------------------
(* Specifications *)

\* The state after the tables have been filled: geofences and devices are
\* drawn from G and D, and every existing device is associated with every
\* existing geofence by a fresh row.
InitTables(G, D, P) ==
    /\ geofences \in G
    /\ devices \in D
    /\ device_geofences =
          [p \in DeviceIds \X GeofenceIds |->
              IF ~IsNone(devices[p[1]]) /\ ~IsNone(geofences[p[2]])
              THEN Some(NewDeviceGeofence) ELSE None]
    /\ locations = <<>>
    /\ notifications = <<>>
    /\ task_queue = EmptyBag
    /\ events = EmptyBag
    /\ producer \in P
    /\ db = None
    /\ now = 0
    /\ requests = 0
    /\ tasks = [t \in TaskIds |-> IdleTask]
    /\ last = NoStep
    /\ lastCompleted = [d \in DeviceIds |-> None]
    /\ lastProcessed = [p \in DeviceIds \X GeofenceIds |-> None]
    /\ lastFailed = [d \in DeviceIds |-> None]
    /\ delivered = EmptyBag

\* No retry wrapper is running and the breaker has just been constructed
\* with its default arguments.
UtilIdle ==
    /\ rt = RetryIdle
    /\ cb = NewBreaker(5, 30)
    /\ calls = [c \in Callers |-> IdleCall]
    /\ cbLast = NoCall

\* The same with a started Kafka producer.
InitWith(G, D) == InitTables(G, D, {"started"}) /\ UtilIdle

AllOn == Flags(TRUE, TRUE, TRUE, TRUE)
ExitPushOnly == Flags(FALSE, TRUE, TRUE, FALSE)

\* Geofence 1 takes every shape and every status; geofence 2 is a valid
\* circle or a polygon without coordinates.
ShapesAndStatuses ==
    {Geofence(s, "active", AllOn) : s \in AllShapes}
    \cup {Geofence(RectOk, st, AllOn) : st \in Statuses}

Siblings ==
    {Geofence(CircleOk, "active", ExitPushOnly), Geofence(PolygonNone, "active", AllOn)}

\* Geofence 1 takes every combination of the notification settings as well.
ShapesStatusesAndFlags ==
    ShapesAndStatuses \cup {Geofence(RectOk, "active", f) : f \in AllFlags}

GeofenceTables(G1, G2) ==
    {[g \in GeofenceIds |-> Some(IF g = 1 THEN g1 ELSE g2)] : g1 \in G1, g2 \in G2}

\* Device 1 exists, device 2 does not.
DeviceTables(D1) ==
    {[d \in DeviceIds |-> IF d = 1 THEN Some(d1) ELSE None] : d1 \in D1}

Init ==
    InitWith(GeofenceTables(ShapesAndStatuses, Siblings),
             DeviceTables({Device(TRUE, TRUE)}))

InitSeq ==
    InitWith(GeofenceTables(ShapesStatusesAndFlags,
                            {Geofence(CircleOk, "active", ExitPushOnly)}),
             DeviceTables(AllDevices))

InitAdmin ==
    InitWith(GeofenceTables({Geofence(RectOk, st, AllOn) : st \in Statuses},
                            {Geofence(CircleOk, "active", ExitPushOnly)}),
             DeviceTables({Device(TRUE, TRUE)}))

\* Requests arrive at any time and interleave.
Next ==
    \/ \E t \in TaskIds, d \in DeviceIds, c \in SampleCoords, ts \in 0..now :
          ProcessLocation(t, d, c, ts)
    \/ \E t \in TaskIds : CheckGeofence(t)
    \/ \E t \in TaskIds : RespondLocation(t)

\* The caller sends the samples of one device one at a time.
NextSeq ==
    \/ \E t \in TaskIds, d \in DeviceIds, c \in SampleCoords, ts \in 0..now :
          DeviceIsQuiet(d) /\ ProcessLocation(t, d, c, ts)
    \/ \E t \in TaskIds : CheckGeofence(t)
    \/ \E t \in TaskIds : RespondLocation(t)

\* As NextSeq, with geofences deleted at any time.
NextAdmin ==
    \/ NextSeq
    \/ \E g \in GeofenceIds : DeleteGeofence(g)

Spec == Init /\ [][Next]_vars
SpecSeq == InitSeq /\ [][NextSeq]_vars
SpecAdmin == InitAdmin /\ [][NextAdmin]_vars

\* Two active geofences that contain the sample (1,1); both channels are
\* configured, so that a transition writes up to three rows.
InitFaults ==
    InitWith(GeofenceTables({Geofence(RectOk, "active", AllOn),
                             Geofence(PolygonOk, "active", ExitPushOnly)},
                            {Geofence(CircleOk, "active", AllOn)}),
             DeviceTables({Device(TRUE, TRUE)}))

\* As NextSeq, with a database that fails and recovers at any time.
NextFaults ==
    \/ NextSeq
    \/ \E n \in 0..(AllWrites - 1) : DbDegrades(n)
    \/ DbRecovers

SpecFaults == InitFaults /\ [][NextFaults]_vars

InitClock ==
    InitWith(GeofenceTables({Geofence(RectOk, "active", AllOn)},
                            {Geofence(CircleOk, "active", ExitPushOnly)}),
             DeviceTables({Device(TRUE, TRUE)}))

\* As NextSeq, with a clock that advances; a sample carries any timestamp up
\* to the present.
NextClock ==
    \/ NextSeq
    \/ Tick

SpecClock == InitClock /\ [][NextClock]_vars

\* The Kafka producer is in any of its states.
InitKafka ==
    InitTables(GeofenceTables({Geofence(RectOk, "active", AllOn)},
                              {Geofence(CircleOk, "active", AllOn)}),
               DeviceTables({Device(TRUE, TRUE)}),
               ProducerStates)
    /\ UtilIdle

SpecKafka == InitKafka /\ [][NextSeq]_vars

\* Both devices exist and are associated with the same two geofences.
InitTwo ==
    InitWith(GeofenceTables({Geofence(RectOk, "active", AllOn)},
                            {Geofence(CircleOk, "active", ExitPushOnly)}),
             {[d \in DeviceIds |-> Some(Device(TRUE, TRUE))]})

\* Evaluations of different devices interleave freely; those of one device
\* are sent one at a time.
SpecTwo == InitTwo /\ [][NextSeq]_vars

\* Every point of the grid, and rectangles whose sides are grid lines.
GridCoords == (0..2) \X (0..2)

Intervals == {<<0, 1>>, <<1, 2>>, <<1, 1>>, <<0, 2>>}

Rectangles ==
    {Shape("rectangle", None, None, None, None,
           Some(la[1]), Some(la[2]), Some(lo[1]), Some(lo[2])) :
        la \in Intervals, lo \in Intervals}

\* One device and one active rectangle geofence.
InitRect ==
    InitWith({[g \in GeofenceIds |->
                 IF g = 1 THEN Some(Geofence(r, "active", AllOn)) ELSE None] :
              r \in Rectangles},
             DeviceTables({Device(TRUE, FALSE)}))

\* As NextSeq, with samples from every point of the grid.
NextRect ==
    \/ \E t \in TaskIds, d \in DeviceIds, c \in GridCoords :
          DeviceIsQuiet(d) /\ ProcessLocation(t, d, c, now)
    \/ \E t \in TaskIds : CheckGeofence(t)
    \/ \E t \in TaskIds : RespondLocation(t)

SpecRect == InitRect /\ [][NextRect]_vars

\* No geofence and no device: the location flow is not used.
NoTables ==
    InitTables({[g \in GeofenceIds |-> None]}, {[d \in DeviceIds |-> None]},
               {"started"})

\* A wrapped function is called once, under any configuration.
InitRetry ==
    /\ NoTables
    /\ rt \in {RetryCall(c) : c \in RetryConfigs}
    /\ cb = NewBreaker(5, 30)
    /\ calls = [c \in Callers |-> IdleCall]
    /\ cbLast = NoCall

NextRetry ==
    \E ok \in BOOLEAN, e \in ExceptionClasses, k \in Draws : RetryAttempt(ok, e, k)

SpecRetry == InitRetry /\ [][NextRetry]_vars

\* A breaker constructed with small arguments.
InitBreaker ==
    /\ NoTables
    /\ rt = RetryIdle
    /\ cb \in {NewBreaker(m, r) : m \in 1..3, r \in 1..2}
    /\ calls = [c \in Callers |-> IdleCall]
    /\ cbLast = NoCall

\* Calls arrive at any time and overlap.
NextBreaker ==
    \/ \E c \in Callers : CallEnter(c)
    \/ \E c \in Callers : CallFails(c)
    \/ \E c \in Callers : CallSucceeds(c)
    \/ Tick

SpecBreaker == InitBreaker /\ [][NextBreaker]_vars

\* One device with an FCM token and one rectangle that notifies entries.
InitDelivery ==
    InitWith({[g \in GeofenceIds |->
                 IF g = 1
                 THEN Some(Geofence(RectOk, "active", Flags(TRUE, FALSE, TRUE, TRUE)))
                 ELSE None]},
             DeviceTables({Device(TRUE, FALSE)}))

\* A sample inside the rectangle and one outside.
DeliveryCoords == {<<1, 1>>, <<2, 2>>}

\* Requests of device 1 one at a time, with the workers that execute the
\* queued tasks and the task that re-enqueues pending notifications, at any
\* time.
NextDelivery ==
    \/ \E c \in DeliveryCoords, ts \in 0..now :
          DeviceIsQuiet(1) /\ ProcessLocation(1, 1, c, ts)
    \/ CheckGeofence(1)
    \/ RespondLocation(1)
    \/ \E m \in BagToSet(task_queue), outcome \in ProviderOutcomes :
          SendNotificationTask(m, outcome)
    \/ ProcessPendingNotifications

SpecDelivery == InitDelivery /\ [][NextDelivery]_vars

----------------------------------------------------------------------------
(* Properties *)

\* The latest loop iteration computed a containment (the geofence took part
\* and no exception was raised).
Evaluated == last.kind \in {"Entered", "Exited", "Unchanged"}

\* Number of notifications of one channel created by the latest iteration.
CreatedOf(type) ==
    Cardinality({i \in DOMAIN last.created : last.created[i].notification_type = type})

\* Number of published events of one type for one pair.
GeofenceEventCount(d, g, type) ==
    LET E == {e \in BagToSet(events) :
                 /\ e.event_type = type
                 /\ e.device_id = d
                 /\ e.geofence_id = Some(g)}
    IN  BagCardinality([e \in E |-> events[e]])

\* C1: Idempotence.  When a sample (device, coordinate, timestamp) has been
\* evaluated to completion and the same sample is evaluated again with no
\* other evaluation of the device in between, no iteration of the second
\* evaluation detects a transition: the row is not written, no notification
\* is created, no task is enqueued and no geofence event is published.
C1_Idempotence ==
    last.repeat =>
        /\ last.kind \in {"Unchanged", "Skipped"}
        /\ last.after = last.stored
        /\ last.created = <<>>
        /\ last.enqueued = <<>>
        /\ last.published = <<>>

\* C1 witness: the second evaluation of a sample inside an active geofence
\* that the first evaluation entered.
C1_Witness ==
    /\ last.repeat
    /\ last.kind = "Unchanged"
    /\ last.computed
    /\ ~IsNone(last.stored) /\ Val(last.stored).is_inside
    /\ Len(notifications) > 0

\* C2: Per-device serialization.  The read of the stored is_inside and the
\* following update_state of one evaluation are never separated by a write
\* of the same pair by another evaluation: when an iteration compares the
\* is_inside it read, the row still holds that value; and the geofence.enter
\* events of a pair never outnumber its geofence.exit events by more than one.
C2_Serialized ==
    /\ (Evaluated /\ ~IsNone(last.stored)) => last.prev = Val(last.stored).is_inside
    /\ \A d \in DeviceIds, g \in GeofenceIds :
          GeofenceEventCount(d, g, "geofence.enter")
             <= GeofenceEventCount(d, g, "geofence.exit") + 1

\* C3: State invariant.  With the evaluations of a device run one at a time,
\* the stored is_inside of every pair equals the containment, in the
\* geofence's shape, of the coordinate of the latest sample that was
\* evaluated for the pair.
C3_StateReflectsLastSample ==
    \A p \in DeviceIds \X GeofenceIds :
        (~IsNone(lastProcessed[p]) /\ ~IsNone(device_geofences[p]) /\ ~IsNone(geofences[p[2]]))
        => LET c == Val(lastProcessed[p])
           IN  Val(device_geofences[p]).is_inside
                  = ComputeIsInside(Val(geofences[p[2]]), c[1], c[2]).inside

\* C3 witness: a pair that was entered and then left: the row records an
\* entry, is_inside is false again and the latest sample is outside.
C3_Witness ==
    \E p \in DeviceIds \X GeofenceIds :
        /\ ~IsNone(lastProcessed[p]) /\ ~IsNone(device_geofences[p])
        /\ ~Val(device_geofences[p]).is_inside
        /\ ~IsNone(Val(device_geofences[p]).last_entered_at)
        /\ ~IsNone(Val(device_geofences[p]).last_exited_at)

\* C4: Transition detection.  For an active geofence, an iteration that read
\* is_inside = false and computed containment = true is an Entered
\* transition and writes is_inside = true; one that read true and computed
\* false is an Exited transition and writes is_inside = false; no other
\* iteration is a transition or writes the row.
C4_TransitionDetection ==
    /\ Evaluated =>
          /\ (last.kind = "Entered") <=> (~last.prev /\ last.computed)
          /\ (last.kind = "Exited") <=> (last.prev /\ ~last.computed)
          /\ last.kind = "Entered" =>
                /\ Val(last.after).is_inside
                /\ Val(device_geofences[<<last.device_id, last.geofence_id>>]).is_inside
          /\ last.kind = "Exited" =>
                /\ ~Val(last.after).is_inside
                /\ ~Val(device_geofences[<<last.device_id, last.geofence_id>>]).is_inside
    /\ ~(Evaluated /\ last.prev # last.computed) => last.after = last.stored

\* C4 witness: an Exited transition (which needs an earlier Entered one).
C4_Witness ==
    /\ last.kind = "Exited"
    /\ last.prev /\ ~last.computed
    /\ ~Val(last.after).is_inside

\* C5: Unchanged leaves everything untouched.  A loop iteration for an
\* active geofence whose computed containment equals the is_inside it read
\* changes no device_geofences row, creates no notification, enqueues no
\* send task and publishes no event.
C5_UnchangedIsFrame ==
    [][\A t \in TaskIds :
          (/\ tasks[t].pc = "check"
           /\ tasks[t].idx <= Len(tasks[t].snapshot)
           /\ tasks'[t] # tasks[t]
           /\ LET dg == tasks[t].snapshot[tasks[t].idx]
                  geofence == geofences[dg.geofence_id]
              IN  /\ ~IsNone(geofence)
                  /\ Val(geofence).status = "active"
                  /\ LET res == ComputeIsInside(Val(geofence), tasks[t].coord[1],
                                                tasks[t].coord[2])
                     IN  res.err = "" /\ res.inside = dg.is_inside)
          => /\ device_geofences' = device_geofences
             /\ notifications' = notifications
             /\ task_queue' = task_queue
             /\ events' = events]_vars

\* C5 witness: an iteration for a device that is inside and stays inside.
C5_Witness ==
    /\ last.kind = "Unchanged"
    /\ last.prev /\ last.computed
    /\ ~IsNone(last.stored) /\ ~IsNone(Val(last.stored).last_entered_at)

C7_NotificationGating ==
    /\ last.created # <<>> =>
          /\ last.kind \in {"Entered", "Exited"}
          /\ last.kind = "Entered" => Val(last.geofence).notify_on_enter
          /\ last.kind = "Exited" => Val(last.geofence).notify_on_exit
    /\ (/\ last.kind \in {"Entered", "Exited"}
        /\ ~Val(last.geofence).notify_on_enter
        /\ Val(last.geofence).notify_on_exit) =>
          /\ last.kind = "Entered" => last.created = <<>>
          /\ (/\ last.kind = "Exited"
              /\ Val(last.geofence).enable_push
              /\ Val(last.device).fcm_token) => CreatedOf("push") = 1

\* C7 witness: the Exited transition of the scenario, after the Entered
\* transition of the same pair, which left no notification behind.
C7_Witness ==
    /\ last.kind = "Exited"
    /\ ~Val(last.geofence).notify_on_enter
    /\ Val(last.geofence).notify_on_exit
    /\ Val(last.geofence).enable_push
    /\ Val(last.device).fcm_token
    /\ CreatedOf("push") = 1
    /\ ~IsNone(Val(last.after).last_entered_at)
    /\ \A i \in DOMAIN notifications :
          notifications[i].geofence_id = last.geofence_id
          => notifications[i].event_type = "geofence_exit"

\* C8: Channel selection.  Whenever a transition's notify flag is set,
\* send_geofence_notification creates a push notification iff enable_push is
\* set and the device has a push token, and a telegram notification iff
\* enable_telegram is set and the device has a chat id; at most one of each;
\* every created notification is stored and enqueued once; creating none is
\* not an error.
C8_ChannelSelection ==
    (/\ last.kind \in {"Entered", "Exited"}
     /\ IF last.kind = "Entered" THEN Val(last.geofence).notify_on_enter
                                 ELSE Val(last.geofence).notify_on_exit) =>
        /\ CreatedOf("push") =
              IF Val(last.geofence).enable_push /\ Val(last.device).fcm_token
              THEN 1 ELSE 0
        /\ CreatedOf("telegram") =
              IF Val(last.geofence).enable_telegram /\ Val(last.device).telegram_chat_id
              THEN 1 ELSE 0
        /\ Len(last.created) = CreatedOf("push") + CreatedOf("telegram")
        /\ Len(last.enqueued) = Len(last.created)
        /\ \A i \in DOMAIN last.created :
              /\ last.created[i].id \in DOMAIN notifications
              /\ notifications[last.created[i].id] = last.created[i]
              /\ last.enqueued[i].notification_id = last.created[i].id
              /\ CopiesIn(last.enqueued[i], task_queue) = 1
        /\ last.err = ""

\* C8 witness: a transition whose notify flag is set and for which neither
\* channel is configured: no notification, and the evaluation goes on.
C8_Witness ==
    /\ last.kind = "Entered"
    /\ Val(last.geofence).notify_on_enter
    /\ Val(last.geofence).enable_push /\ ~Val(last.device).fcm_token
    /\ ~Val(last.geofence).enable_telegram /\ Val(last.device).telegram_chat_id
    /\ last.created = <<>>
    /\ last.err = ""
    /\ tasks[last.task].pc = "check"

\* C9: Only active geofences participate.  A loop iteration for a pair whose
\* geofence is inactive, archived or deleted changes no device_geofences
\* row, creates no notification, enqueues no task and publishes no event.
C9_OnlyActiveParticipate ==
    [][\A t \in TaskIds :
          (/\ tasks[t].pc = "check"
           /\ tasks[t].idx <= Len(tasks[t].snapshot)
           /\ tasks'[t] # tasks[t]
           /\ LET geofence == geofences[tasks[t].snapshot[tasks[t].idx].geofence_id]
              IN  \/ IsNone(geofence)
                  \/ Val(geofence).status \in {"inactive", "archived"})
          => /\ device_geofences' = device_geofences
             /\ notifications' = notifications
             /\ task_queue' = task_queue
             /\ events' = events
             /\ tasks'[t].pc = "check"]_vars

\* C9 witness: an iteration passed over an inactive geofence although the
\* sample lies inside its shape.
C9_Witness ==
    /\ last.kind = "Skipped"
    /\ ~IsNone(last.geofence)
    /\ Val(last.geofence).status = "inactive"
    /\ ComputeIsInside(Val(last.geofence), last.coord[1], last.coord[2]).inside
    /\ last.after = last.stored
    /\ ~Val(last.stored).is_inside

\* The parameters that the declared kind of a geofence requires are not all
\* present.
MissingParams(g) ==
    CASE g.geofence_type = "circle" ->
            IsNone(g.center_latitude) \/ IsNone(g.center_longitude)
            \/ IsNone(g.radius_meters)
      [] g.geofence_type = "polygon" -> g.polygon_coordinates = <<>>
      [] g.geofence_type = "rectangle" ->
            IsNone(g.min_latitude) \/ IsNone(g.max_latitude)
            \/ IsNone(g.min_longitude) \/ IsNone(g.max_longitude)

\* C10: Missing shape parameters are never read as 'outside'.  The
\* evaluation of an active geofence whose required parameters are absent
\* fails; it never ends with a computed containment.
C10_MissingShapeFails ==
    (/\ last.kind # "None"
     /\ ~IsNone(last.geofence)
     /\ Val(last.geofence).status = "active"
     /\ MissingParams(Val(last.geofence))) => last.kind = "Failed"

\* The shape of a geofence cannot be tested: parameters are missing or the
\* polygon has fewer than three vertices.
Malformed(g) ==
    \/ MissingParams(g)
    \/ g.geofence_type = "polygon" /\ Len(g.polygon_coordinates) < 3

ShapeErrors == {"TypeError", "ValueError"}

\* C11: Isolation of malformed shapes.  A containment test that fails does
\* not end the evaluation: no request is answered with the error of a
\* containment test, and once a device has sent a sample and no evaluation is
\* running, every active well-formed geofence of the device has been
\* evaluated.
C11_MalformedShapeIsolated ==
    /\ \A t \in TaskIds :
          tasks[t].pc = "done" => tasks[t].error \notin ShapeErrors
    /\ \A d \in DeviceIds :
          (/\ \E i \in DOMAIN locations : locations[i].device_id = d
           /\ \A t \in TaskIds : tasks[t].pc # "check")
          => \A g \in GeofenceIds :
                (/\ ~IsNone(device_geofences[<<d, g>>])
                 /\ ~IsNone(geofences[g])
                 /\ Val(geofences[g]).status = "active"
                 /\ ~Malformed(Val(geofences[g])))
                => ~IsNone(lastProcessed[<<d, g>>])

\* C12: Isolation of persistence failures.  When update_state fails for one
\* pair, the evaluation is not ended by it: the loop goes on with the
\* remaining pairs of the device.
C12_PersistenceFailureIsolated ==
    (last.kind = "Failed" /\ last.err = "SQLAlchemyError") => ~last.aborted

\* C13: An unknown device is a reported failure.  A call of process_location
\* for a device id that no device has ends with an error raised to its
\* caller, and it stores no location, creates no device_geofences row and no
\* notification, and publishes no event for that device id.
C13_DeviceNotFoundSurfaced ==
    /\ \A t \in TaskIds :
          (tasks[t].pc = "done" /\ IsNone(devices[tasks[t].device_id]))
          => tasks[t].error # ""
    /\ \A d \in DeviceIds :
          IsNone(devices[d]) =>
             /\ \A i \in DOMAIN locations : locations[i].device_id # d
             /\ \A i \in DOMAIN notifications : notifications[i].device_id # d
             /\ \A e \in BagToSet(events) : e.device_id # d
             /\ \A g \in GeofenceIds : IsNone(device_geofences[<<d, g>>])

\* C14: Transition symmetry.  With the evaluations of a device run one at a
\* time, the evaluation of a sample outside a shape the device is inside of
\* is an Exited transition; it sets last_exited_at and leaves last_entered_at
\* as the earlier Entered transition wrote it.  An Entered transition sets
\* last_entered_at and leaves last_exited_at as it was.
C14_TransitionSymmetry ==
    /\ (Evaluated /\ ~IsNone(last.stored) /\ Val(last.stored).is_inside
        /\ ~last.computed) => last.kind = "Exited"
    /\ last.kind = "Exited" =>
          /\ ~IsNone(Val(last.after).last_exited_at)
          /\ ~IsNone(Val(last.stored).last_entered_at)
          /\ Val(last.after).last_entered_at = Val(last.stored).last_entered_at
          /\ device_geofences[<<last.device_id, last.geofence_id>>] = last.after
    /\ last.kind = "Entered" =>
          /\ ~IsNone(Val(last.after).last_entered_at)
          /\ Val(last.after).last_exited_at = Val(last.stored).last_exited_at
          /\ device_geofences[<<last.device_id, last.geofence_id>>] = last.after

\* C14 witness: an exit at time 1 after an entry at time 0; the row holds
\* both timestamps.
C14_Witness ==
    /\ last.kind = "Exited"
    /\ Val(last.stored).is_inside
    /\ Val(last.after).last_entered_at = Some(0)
    /\ Val(last.after).last_exited_at = Some(1)
    /\ device_geofences[<<last.device_id, last.geofence_id>>] = last.after

\* C15: Transition timestamps come from the sample.  An Entered transition
\* sets last_entered_at, and an Exited transition sets last_exited_at, to the
\* timestamp of the sample that is evaluated.
C15_TimestampFromSample ==
    /\ last.kind = "Entered" => Val(last.after).last_entered_at = Some(last.ts)
    /\ last.kind = "Exited" => Val(last.after).last_exited_at = Some(last.ts)

\* C16: Samples take effect in timestamp order.  Once a sample of a device
\* has been evaluated, a sample of that device with an older timestamp does
\* not change any is_inside of the device.
C16_TimestampOrder ==
    (last.kind \in {"Entered", "Exited"} /\ ~IsNone(last.newest))
    => last.ts >= Val(last.newest)

\* C17: Retry without duplication.  When an evaluation was aborted by a
\* failing write and the same sample is evaluated again, with no other
\* evaluation of the device in between, the second run does nothing for the
\* pairs for which the first run had committed a write: it does not write
\* the row again, creates no notification, enqueues no task and publishes no
\* event.
C17_RetryNoDuplicate ==
    (last.retry /\ last.geofence_id \in last.already) =>
        /\ last.after = last.stored
        /\ last.created = <<>>
        /\ last.enqueued = <<>>
        /\ last.published = <<>>

\* C17 witness: the first run entered the geofence, created the push
\* notification and failed on the telegram notification; the second run
\* finds the device inside and leaves the single notification alone.
C17_Witness ==
    /\ last.retry
    /\ last.geofence_id \in last.already
    /\ last.kind = "Unchanged"
    /\ last.computed
    /\ Val(last.geofence).enable_push /\ Val(last.geofence).enable_telegram
    /\ Val(last.geofence).notify_on_enter
    /\ Cardinality({i \in DOMAIN notifications :
                       notifications[i].geofence_id = last.geofence_id}) = 1

\* C18: Event publication is best effort.  When the producer cannot publish,
\* a transition still commits its state update, the evaluation goes on with
\* the remaining geofences, no request is ended by the publication error,
\* and the event is never published later.
C18_PublicationBestEffort ==
    /\ (last.kind \in {"Entered", "Exited"} /\ producer # "started") =>
          /\ last.published = <<>>
          /\ last.err = ""
          /\ ~last.aborted
          /\ device_geofences[<<last.device_id, last.geofence_id>>] = last.after
          /\ Val(last.after).is_inside = last.computed
    /\ producer # "started" => events = EmptyBag
    /\ \A t \in TaskIds :
          tasks[t].pc = "done" => tasks[t].error \notin {"KafkaError", "AttributeError"}

\* C18 witness: with a producer whose send raises, one sample entered both
\* geofences of the device: the first transition is committed, the second
\* geofence was evaluated after it, and nothing was published.
C18_Witness ==
    /\ producer = "failing"
    /\ last.kind = "Entered"
    /\ last.geofence_id = 2
    /\ Val(device_geofences[<<last.device_id, 1>>]).is_inside
    /\ Val(device_geofences[<<last.device_id, 2>>]).is_inside
    /\ Len(locations) = 1
    /\ events = EmptyBag

\* C19: Cross-device independence.  Under any interleaving, a step of a
\* request of device D leaves the rows of every other device as they are,
\* also for a geofence both devices are associated with; and the snapshot an
\* evaluation of D works on holds exactly the rows of D.
C19_CrossDeviceIndependence ==
    [][\A t \in TaskIds :
          tasks'[t] # tasks[t] =>
             LET d == tasks'[t].device_id
             IN  /\ \A p \in DeviceIds \X GeofenceIds :
                       p[1] # d => device_geofences'[p] = device_geofences[p]
                 /\ (tasks'[t].pc = "check" /\ tasks[t].pc # "check") =>
                       LET snap == tasks'[t].snapshot
                       IN  /\ Len(snap) = Cardinality({g \in GeofenceIds :
                                             ~IsNone(device_geofences[<<d, g>>])})
                           /\ \A i \in DOMAIN snap :
                                 /\ ~IsNone(device_geofences[<<d, snap[i].geofence_id>>])
                                 /\ snap[i].is_inside =
                                       Val(device_geofences[<<d, snap[i].geofence_id>>]).is_inside]_vars

\* C19 witness: device 1 is inside geofence 1 and has an evaluation under
\* way; an evaluation of device 2 has just found device 2 outside the same
\* geofence, and the two rows differ.
C19_Witness ==
    /\ last.device_id = 2
    /\ last.geofence_id = 1
    /\ last.kind = "Unchanged"
    /\ ~last.computed
    /\ Val(device_geofences[<<1, 1>>]).is_inside
    /\ ~Val(device_geofences[<<2, 1>>]).is_inside
    /\ \E t \in TaskIds : tasks[t].pc = "check" /\ tasks[t].device_id = 1

\* C20: Rectangle containment is inclusive.  For every point of the grid and
\* every rectangle, the containment computed for a rectangle geofence is
\* true iff min_lat <= lat <= max_lat and min_lon <= lon <= max_lon; a point
\* on a boundary is inside.
C20_RectangleInclusive ==
    (/\ Evaluated
     /\ Val(last.geofence).geofence_type = "rectangle"
     /\ ~MissingParams(Val(last.geofence))) =>
        LET g == Val(last.geofence)
        IN  last.computed <=>
               /\ Val(g.min_latitude) <= last.coord[1]
               /\ last.coord[1] <= Val(g.max_latitude)
               /\ Val(g.min_longitude) <= last.coord[2]
               /\ last.coord[2] <= Val(g.max_longitude)

\* C20 witness: a sample exactly on the min_lat side of a rectangle, between
\* its two longitudes, entered the geofence.
C20_Witness ==
    /\ last.kind = "Entered"
    /\ Val(last.geofence).geofence_type = "rectangle"
    /\ last.coord[1] = Val(Val(last.geofence).min_latitude)
    /\ last.coord[1] < Val(Val(last.geofence).max_latitude)
    /\ Val(Val(last.geofence).min_longitude) < last.coord[2]
    /\ last.coord[2] < Val(Val(last.geofence).max_longitude)
    /\ last.computed
    /\ Val(device_geofences[<<last.device_id, last.geofence_id>>]).is_inside

\* C21: Bounded retry.  With n = max_attempts, the wrapped function is
\* invoked at most n times; while the loop runs, the attempt about to be made
\* is the number of invocations so far plus one; a wrapper that returned made
\* exactly as many invocations as the number of the attempt whose result it
\* returns; a RetryError is raised after exactly n invocations, carries the
\* exception of the n-th attempt and attempt_count = n; and a wrapper whose
\* last exception was retriable ended with a RetryError.
C21_BoundedRetry ==
    LET n == rt.config.max_attempts
    IN  /\ rt.invoked <= n
        /\ rt.pc = "call" => rt.attempt = rt.invoked + 1 /\ rt.attempt <= n
        /\ rt.pc = "returned" => rt.result = Some(rt.invoked) /\ IsNone(rt.raised)
                                    /\ IsNone(rt.retry_error)
        /\ ~IsNone(rt.retry_error) =>
              /\ rt.invoked = n
              /\ rt.last_exception = Some(Val(rt.retry_error).last_exception)
              /\ Val(rt.retry_error).last_exception.attempt = n
              /\ Val(rt.retry_error).attempt_count = n
        /\ (/\ rt.pc = "raised"
            /\ Val(rt.last_exception).retriable
            /\ ~Val(rt.last_exception).non_retriable) =>
              ~IsNone(rt.retry_error) /\ IsNone(rt.raised)

\* C21 witness: three retriable failures under max_attempts = 3 ended with a
\* RetryError.
C21_Witness ==
    /\ rt.pc = "raised"
    /\ rt.config.max_attempts = 3
    /\ rt.invoked = 3
    /\ ~IsNone(rt.retry_error)
    /\ Val(rt.retry_error).last_exception.attempt = 3

\* C22: A non-retriable exception stops the loop.  When the latest exception
\* of the wrapped function is of a non-retriable class, or of no retriable
\* class, the wrapper has ended by raising that same exception and no
\* RetryError; the function was invoked no more after the attempt that
\* raised it; and the waits and the on_retry calls are those of the earlier
\* attempts only.
C22_NonRetriableStops ==
    (/\ ~IsNone(rt.last_exception)
     /\ \/ Val(rt.last_exception).non_retriable
        \/ ~Val(rt.last_exception).retriable) =>
        /\ rt.pc = "raised"
        /\ rt.raised = rt.last_exception
        /\ IsNone(rt.retry_error)
        /\ rt.invoked = Val(rt.last_exception).attempt
        /\ rt.slept = rt.invoked - 1
        /\ rt.on_retry_calls = IF rt.config.on_retry THEN rt.invoked - 1 ELSE 0

\* C22 witness: the second attempt raised an exception that is both of a
\* retriable and of a non-retriable class, and the wrapper re-raised it.
C22_Witness ==
    /\ rt.pc = "raised"
    /\ ~IsNone(rt.raised)
    /\ Val(rt.raised).retriable
    /\ Val(rt.raised).non_retriable
    /\ Val(rt.raised).attempt = 2
    /\ rt.config.on_retry
    /\ rt.on_retry_calls = 1
    /\ rt.slept = 1

\* C23: max_delay bounds every wait.  Every delay computed between two
\* attempts is at least 0 and at most max_delay.
C23_MaxDelayBounds ==
    ~IsNone(rt.delay) =>
        /\ RatLeq(Rat(0), Val(rt.delay))
        /\ RatLeq(Val(rt.delay), Rat(rt.config.max_delay))

\* A call was admitted or rejected by the latest step of the breaker.
Decided == cbLast.op \in {"passed", "rejected"}

C26_Recovery ==
    /\ (Decided /\ cbLast.before._state = "OPEN"
                /\ Elapsed(cbLast.before, cbLast.at)) =>
          /\ cbLast.op = "passed"
          /\ cbLast.probing
          /\ cbLast.after._state = "HALF_OPEN"
    /\ (cbLast.op = "succeeded" /\ cbLast.probing) =>
          /\ cbLast.after._state = "CLOSED"
          /\ cbLast.after._failure_count = 0
          /\ IsNone(cbLast.after._opened_at)
    /\ (cbLast.op = "failed" /\ cbLast.probing) =>
          /\ cbLast.after._state = "OPEN"
          /\ cbLast.after._opened_at = Some(cbLast.at)
    /\ (cbLast.op = "passed" /\ cbLast.probe_failed) =>
          cbLast.at - cbLast.probe_failed_at >= cb.reset_timeout_seconds

\* C27: Circuit breaker state invariant.  The failure count lies in
\* 0..max_failures, the state is CLOSED, OPEN or HALF_OPEN, the state is
\* OPEN or HALF_OPEN only if _opened_at is set, and the state is CLOSED
\* whenever the failure count is below max_failures and no probe has failed
\* since the latest success.
C27_StateInvariant ==
    /\ cb._failure_count \in 0..cb.max_failures
    /\ cb._state \in {"CLOSED", "OPEN", "HALF_OPEN"}
    /\ cb._state \in {"OPEN", "HALF_OPEN"} => ~IsNone(cb._opened_at)
    /\ (cb._failure_count < cb.max_failures /\ ~cbLast.probe_failed) =>
          cb._state = "CLOSED"

\* C27 witness: while two calls are running, a third call fails and opens a
\* breaker whose failure count was already max_failures.
C27_Witness ==
    /\ cbLast.op = "failed"
    /\ ~cbLast.probing
    /\ cbLast.before._failure_count = cb.max_failures
    /\ cb._failure_count = cb.max_failures
    /\ cb.max_failures >= 2
    /\ cb._state = "OPEN"
    /\ Cardinality({c \in Callers : calls[c].pc = "running"}) = 2

\* C28: Single probe in HALF_OPEN.  At most one call that was admitted as a
\* probe is running the wrapped function at a time.
C28_SingleProbe ==
    Cardinality({c \in Callers : calls[c].pc = "running" /\ calls[c].probing}) <= 1

\* C29: At-most-once delivery per notification record.  The delivery
\* provider has been invoked at most once for every notification id.
C29_AtMostOnceDelivery ==
    \A id \in 1..Len(notifications) : CopiesIn(id, delivered) <= 1

\* C24: No transition loses its notification.  When an evaluation was
\* aborted after it had committed the state update of a transition, and the
\* same sample is evaluated again and this time the pair is evaluated without
\* an error, then every notification the transition owes (one per configured
\* channel when its notify flag is set) exists and the integration event of
\* the transition has been published.
C24_NoLostNotification ==
    (last.retry /\ last.geofence_id \in last.already /\ Evaluated /\ ~last.aborted) =>
        LET g == Val(last.geofence)
            kind == IF last.computed THEN "Entered" ELSE "Exited"
            due == IF ShouldNotify(g, kind)
                   THEN send_geofence_notification(0, last.device_id,
                            devices[last.device_id], g, last.geofence_id,
                            NotificationEventOf(kind), last.coord)
                   ELSE <<>>
        IN  /\ \A i \in DOMAIN due :
                  \E j \in DOMAIN notifications :
                      [notifications[j] EXCEPT !.id = 0, !.status = "pending"]
                          = [due[i] EXCEPT !.id = 0]
            /\ GeofenceEvent(last.device_id, last.geofence_id, EventTypeOf(kind),
                             last.coord) \in BagToSet(events)

====
